---- MODULE Spec2Model ----
(***************************************************************************)
(* Ledger engine of the banking REST service: money transfers between      *)
(* accounts (TransactionService.transfer_funds), reversals                 *)
(* (TransactionService.rollback_transaction) and the routes that call      *)
(* them, each request running in its own ORM session.                      *)
(*                                                                         *)
(* Amounts are integers (minor units of Numeric(15, 2)).  A request is a   *)
(* sequence of steps, one per database statement; steps of different       *)
(* requests interleave.  Each session keeps an identity map: an object     *)
(* that a session has loaded once is returned as loaded by every later     *)
(* query of that session (no query of the program asks for                 *)
(* populate_existing).  with_for_update() is an exclusive hold on the row, *)
(* kept until the session commits or rolls back.                           *)
(***************************************************************************)
EXTENDS Integers, Sequences, FiniteSets, TLC

\* ---------------------------------------------------------------- bounds
NumAccounts == 3
NumSessions == 2
MaxAmount == 2
InitialDeposit == 2
MaxRequests == 3
DailyLimit == 3

\* ------------------------------------------------------------ data model
NULL == 0

\* The tick at which the accounts were created (created_at, updated_at)
CreatedAt == 1

AccountId == 1..NumAccounts
Session == 1..NumSessions

\* Account.account_number: unique, distinct from the id
account_number(a) == 100 + a

\* An account number no account carries.
UnknownNumber == 100

\* An account id / transaction id no row carries (for the routes' 404).
UnknownId == NumAccounts + 1

\* db.query(Account).filter(Account.account_number == n).first()
AccountByNumber(n) ==
  IF \E a \in AccountId : account_number(a) = n
  THEN CHOOSE a \in AccountId : account_number(a) = n
  ELSE NULL

\* The one card of the model, on the first account
CardId == 1

CardAccount == 1

Currency == {"USD", "EUR"}

TransactionType == {"transfer", "deposit", "withdrawal", "card_payment", "fee"}

TransactionStatus == {"pending", "completed", "failed", "reversed"}

VARIABLES
  balance,       \* Account.balance, per account id (committed)
  currency,      \* Account.currency, per account id
  updated_at,    \* Account.updated_at, per account id: tick of its last UPDATE
  transactions,  \* the transactions table, in id order (committed)
  row_lock,      \* per account row: the session holding it FOR UPDATE, or NULL
  pc,            \* per session: the statement the request is at
  request,       \* per session: the request it serves
  identity_map,  \* per session: Account objects loaded, id -> balance as held
  loaded_txn,    \* per session: Transaction objects loaded, id -> row as held
  result,        \* per session: outcome of its last request
  requests,      \* number of requests accepted so far
  clock,         \* datetime.now(timezone.utc), as a tick: one per commit
  base,          \* committed state when the current batch of requests began
  before,        \* committed state when the batch before it began
  batch,         \* number of requests in the current batch (counted up to
                 \* NumSessions + 1)
  status,        \* Account.status, per account id
  card_status,   \* Card.status of the card
  daily_limit,   \* Card.daily_limit of the card
  activated_at,  \* Card.activated_at of the card: tick of its activation,
                 \* or NULL
  loaded_card,   \* per session: the Card object loaded, as held, or NULL
  loaded_status, \* per session: Account.status of the account a status
                 \* request loaded, as held, or NULL
  report,        \* per session: the body of its last daily-spending response
  history,       \* per session: the rows its history request returned
  observed       \* per session: the balance its balance request returned,
                 \* or NULL

vars == <<balance, currency, updated_at, transactions, row_lock, pc, request, identity_map,
          loaded_txn, result, requests, clock, base, before, batch,
          status, card_status, daily_limit, activated_at, loaded_card,
          loaded_status,
          report, history, observed>>

\* What the transfer, reversal and card payment requests leave as it is
settings == <<status, card_status, daily_limit, activated_at, report>>

\* ------------------------------------------------------------- requests
NoRequest == [kind |-> "none", from_account_id |-> NULL,
              to_account_number |-> NULL, amount |-> NULL,
              transaction_id |-> NULL, pin |-> NULL, new_limit |-> NULL,
   new_status |-> NULL,
   filters |-> NULL, skip |-> NULL, limit |-> NULL]

TransferRequest(f, n, amt) ==
  [kind |-> "transfer", from_account_id |-> f, to_account_number |-> n,
   amount |-> amt, transaction_id |-> NULL, pin |-> NULL, new_limit |-> NULL,
   new_status |-> NULL,
   filters |-> NULL, skip |-> NULL, limit |-> NULL]

RollbackRequest(t) ==
  [kind |-> "rollback", from_account_id |-> NULL, to_account_number |-> NULL,
   amount |-> NULL, transaction_id |-> t, pin |-> NULL, new_limit |-> NULL,
   new_status |-> NULL,
   filters |-> NULL, skip |-> NULL, limit |-> NULL]

\* A payment on the card, whose account is CardAccount
CardPaymentRequest(amt) ==
  [kind |-> "card_payment", from_account_id |-> NULL, to_account_number |-> NULL,
   amount |-> amt, transaction_id |-> NULL, pin |-> NULL, new_limit |-> NULL,
   new_status |-> NULL,
   filters |-> NULL, skip |-> NULL, limit |-> NULL]

\* A request on the card that is not a payment: activate (with a PIN),
\* deactivate, limit (with a new limit), daily_spending
CardRequest(kind, pin, new_limit) ==
  [kind |-> kind, from_account_id |-> NULL, to_account_number |-> NULL,
   amount |-> NULL, transaction_id |-> NULL, pin |-> pin,
   new_limit |-> new_limit, new_status |-> NULL,
   filters |-> NULL, skip |-> NULL, limit |-> NULL]

\* PUT /accounts/{account_id}/status?new_status=...
StatusRequest(a, st) ==
  [kind |-> "status", from_account_id |-> a, to_account_number |-> NULL,
   amount |-> NULL, transaction_id |-> NULL, pin |-> NULL,
   new_limit |-> NULL, new_status |-> st,
   filters |-> NULL, skip |-> NULL, limit |-> NULL]

AccountStatus == {"active", "frozen", "closed"}

\* A status the enumeration does not have
UnknownStatus == "suspended"

\* A Card object: the attributes the requests read
Card(st, limit) == [status |-> st, daily_limit |-> limit]

CardStatus == {"active", "inactive", "blocked", "expired"}

\* The PINs a request may carry; the card was created with the first
Pin == {1, 2}

CardPin == 1

\* Faulty variant of the hash: one value for every PIN
hash_sensitive_data_Constant(data) == 1000

\* _hash_sensitive_data: modelled as a one-to-one map of the PINs
\* (SHA-256 on four digits)
hash_sensitive_data(data) == 1000 + data

\* stored_pin_hash: the PIN part of Card.cvv_hash, written by create_card
stored_pin_hash == hash_sensitive_data(CardPin)

\* stored_pin_hash != pin_hash  =>  "Invalid PIN"
PinMatches(pin) == stored_pin_hash = hash_sensitive_data(pin)

\* No daily-spending response
NoReport == [daily_limit |-> NULL, spent_today |-> NULL, remaining_limit |-> NULL]

\* No history response
NoHistory == <<>>

\* ------------------------------------------------------- pure operations
\* Faulty variants of the balance check: none at all, and one unit too lenient
SufficientFunds_Always(bal, amt) == TRUE

SufficientFunds_OffByOne(bal, amt) == ~(bal + 1 < amt)

\* ... and one with the operands of the comparison exchanged
SufficientFunds_Exchanged(bal, amt) == ~(amt < bal)

\* Faulty variant of the validation of the amount: zero is let through
ValidAmount_NonNegative(amt) == amt >= 0

\* amount: Decimal = Field(..., gt=0)
ValidAmount(amt) == amt > 0

\* sender.balance < amount  =>  "Insufficient funds"
SufficientFunds(bal, amt) == ~(bal < amt)

Debit(bal, amt) == bal - amt

Credit(bal, amt) == bal + amt

\* Faulty variant of the currency check: any two currencies pass
SameCurrency_Always(c, d) == TRUE

\* sender.currency != receiver.currency  =>  "Currency mismatch"
SameCurrency(c, d) == c = d

\* The Account object of a session for row a: the one already in the identity
\* map if there is one, else the row as committed now.
Load(im, a, bal) == IF a \in DOMAIN im THEN im ELSE (a :> bal[a]) @@ im

\* Faulty variant of the balance update: the receiver is not credited
MoveFunds_DebitOnly(im, s, r, amt) == [im EXCEPT ![s] = im[s] - amt]

\* Faulty variant of the balance update: sender and receiver taken as two
\* copies of the row, the credit computed from the balance as loaded
MoveFunds_TwoCopies(im, s, r, amt) ==
  [a \in DOMAIN im |-> IF a = r THEN im[r] + amt
                       ELSE IF a = s THEN im[s] - amt ELSE im[a]]

\* sender.balance -= amount; receiver.balance += amount
\* (sender and receiver are one object when they are the same row)
MoveFunds(im, s, r, amt) ==
  LET debited == [im EXCEPT ![s] = Debit(@, amt)]
  IN  [debited EXCEPT ![r] = Credit(@, amt)]

\* Faulty variant of the flush: only the lowered balances are written
Written_DebitsOnly(loaded, current) ==
  {a \in DOMAIN current : current[a] < loaded[a]}

\* Flush at commit: one UPDATE per loaded object whose balance differs from
\* the value it was loaded with, setting the row to the object's value
Written(loaded, current) == {a \in DOMAIN current : current[a] # loaded[a]}

\* Faulty variant of the flush: only the UPDATE of the first row written
\* becomes part of the committed state
Flush_FirstRow(bal, loaded, current) ==
  [a \in AccountId |->
     IF a \in Written(loaded, current)
        /\ \A b \in Written(loaded, current) : a <= b
     THEN current[a] ELSE bal[a]]

Flush(bal, loaded, current) ==
  [a \in AccountId |-> IF a \in Written(loaded, current) THEN current[a] ELSE bal[a]]

\* onupdate of Account.updated_at: a row an UPDATE is flushed for takes the
\* time of the flush
Touch(upd, loaded, current, now) ==
  [a \in AccountId |-> IF a \in Written(loaded, current) THEN now ELSE upd[a]]

\* Transaction.description: a formatted string, f"{text} {value}" (value is
\* NULL where the string has no formatted part)
Description(text, value) == [text |-> text, value |-> value]

\* Faulty variant of the transfer record: left pending, completed_at not set
TransferRecord_NotCompleted(s, r, amt, cur, ref, now) ==
  [transaction_type |-> "transfer", from_account_id |-> s, to_account_id |-> r,
   card_id |-> NULL, amount |-> amt, currency |-> cur, status |-> "pending",
   description |-> Description("Transfer to", account_number(r)),
   reference_number |-> ref, created_at |-> now, completed_at |-> NULL]

\* Transaction(transaction_type=TRANSFER, ..., status=COMPLETED, ...)
TransferRecord(s, r, amt, cur, ref, now) ==
  [transaction_type |-> "transfer", from_account_id |-> s, to_account_id |-> r,
   card_id |-> NULL, amount |-> amt, currency |-> cur, status |-> "completed",
   description |-> Description("Transfer to", account_number(r)),
   reference_number |-> ref, created_at |-> now, completed_at |-> now]

\* Faulty variant of the reversal record: sender and receiver as in the
\* original
ReversalRecord_NotSwapped(orig, ref, now) ==
  [transaction_type |-> "transfer", from_account_id |-> orig.from_account_id,
   to_account_id |-> orig.to_account_id, card_id |-> NULL,
   amount |-> orig.amount,
   currency |-> orig.currency, status |-> "completed",
   description |-> Description("Reversal of", orig.reference_number),
   reference_number |-> ref, created_at |-> now, completed_at |-> now]

\* Transaction(...) of rollback_transaction: sender and receiver swapped
ReversalRecord(orig, ref, now) ==
  [transaction_type |-> "transfer", from_account_id |-> orig.to_account_id,
   to_account_id |-> orig.from_account_id, card_id |-> NULL,
   amount |-> orig.amount,
   currency |-> orig.currency, status |-> "completed",
   description |-> Description("Reversal of", orig.reference_number),
   reference_number |-> ref, created_at |-> now, completed_at |-> now]

\* Faulty variant of the status change: the original is put back to pending
MarkReversed_Pending(txns, t) == [txns EXCEPT ![t].status = "pending"]

\* original_txn.status = TransactionStatus.REVERSED
MarkReversed(txns, t) == [txns EXCEPT ![t].status = "reversed"]

\* Faulty variant of the reversal's balance update: the original destination
\* is not debited
ReturnFunds_CreditOnly(im, s, r, amt) == [im EXCEPT ![s] = im[s] + amt]

\* sender.balance += original_txn.amount; receiver.balance -= original_txn.amount
\* (sender: the original source, receiver: the original destination)
ReturnFunds(im, s, r, amt) ==
  LET credited == [im EXCEPT ![s] = Credit(@, amt)]
  IN  [credited EXCEPT ![r] = Debit(@, amt)]

\* Faulty variant of the card_payment record: left pending
CardPaymentRecord_Pending(c, a, amt, cur, ref, now) ==
  [transaction_type |-> "card_payment", from_account_id |-> a,
   to_account_id |-> NULL, card_id |-> c, amount |-> amt, currency |-> cur,
   status |-> "pending", description |-> Description("Card payment", NULL),
   reference_number |-> ref, created_at |-> now, completed_at |-> NULL]

\* The card_payment transaction of an approved card payment: one account,
\* no destination
CardPaymentRecord(c, a, amt, cur, ref, now) ==
  [transaction_type |-> "card_payment", from_account_id |-> a,
   to_account_id |-> NULL, card_id |-> c, amount |-> amt, currency |-> cur,
   status |-> "completed", description |-> Description("Card payment", NULL),
   reference_number |-> ref, created_at |-> now, completed_at |-> now]

\* Daily spend window of card c: the sum of the amounts of its completed
\* card_payment transactions (all of the model's ticks fall in one UTC day)
RECURSIVE DailySpending(_, _, _)
DailySpending(txns, c, n) ==
  IF n = 0 THEN 0
  ELSE DailySpending(txns, c, n - 1)
       + IF /\ txns[n].transaction_type = "card_payment"
            /\ txns[n].card_id = c
            /\ txns[n].status = "completed"
         THEN txns[n].amount ELSE 0

\* Faulty variant of the limit check: the window is left out
WithinLimit_AmountOnly(window, amt, limit) == amt <= limit

\* window + amount <= limit
WithinLimit(window, amt, limit) == window + amt <= limit

\* Initial deposit record of create_account
DepositRecord(a, amt, cur, ref, now) ==
  [transaction_type |-> "deposit", from_account_id |-> NULL, to_account_id |-> a,
   card_id |-> NULL, amount |-> amt, currency |-> cur, status |-> "completed",
   description |-> Description("Initial deposit", NULL),
   reference_number |-> ref, created_at |-> now, completed_at |-> now]

\* _generate_reference(): a generated reference is one already in the table
\* (a collision) or a new one.  New ones are numbered in order of insertion.
FreshReference(txns) == Len(txns) + 1

\* What _generate_reference() may return: a new reference, or that of a
\* transfer or reversal already in the table ("TXN-" + second + six digits)
GeneratedReferences(txns) ==
  {FreshReference(txns)}
    \cup {txns[i].reference_number :
            i \in {j \in 1..Len(txns) : txns[j].transaction_type = "transfer"}}

\* Faulty variant of the unique constraint: not enforced
UniqueReference_NotEnforced(txns, ref) == TRUE

\* Column(String, unique=True): the INSERT of a record with this reference
\* is accepted
UniqueReference(txns, ref) ==
  \A i \in 1..Len(txns) : txns[i].reference_number # ref

\* Faulty variant of the status check: never taken as reversed
AlreadyReversed_Never(txn) == FALSE

\* original_txn.status == TransactionStatus.REVERSED
AlreadyReversed(txn) == txn.status = "reversed"

\* Faulty variant of the type check: the record of a reversal is not taken
\* as a transfer
IsTransfer_NotReversal(txn) ==
  txn.transaction_type = "transfer" /\ txn.description.text # "Reversal of"

\* original_txn.transaction_type != TransactionType.TRANSFER  =>  not reversible
IsTransfer(txn) == txn.transaction_type = "transfer"

\* The checks rollback_transaction makes before it touches the accounts
Reversible(txn) == ~AlreadyReversed(txn) /\ IsTransfer(txn)

Snapshot(bal, txns) == [balance |-> bal, transactions |-> txns]

Quiescent == \A p \in Session : pc[p] = "idle"

\* db.rollback(): the session's holds are released
Release(p) == [a \in AccountId |-> IF row_lock[a] = p THEN NULL ELSE row_lock[a]]

\* The row is free for session p to hold
CanHold(p, a) == row_lock[a] \in {NULL, p}

\* ----------------------------------------------------------------- Init
\* Accounts created by create_account in id order, in USD with an initial
\* deposit of InitialDeposit (one deposit record each), but the last, which
\* has no initial deposit (no record) and is in USD or EUR.
RECURSIVE Deposits(_, _, _)
Deposits(bal, cur, a) ==
  IF a = 0 THEN <<>>
  ELSE LET rest == Deposits(bal, cur, a - 1)
       IN  IF bal[a] > 0
           THEN Append(rest, DepositRecord(a, bal[a], cur[a], Len(rest) + 1,
                                           CreatedAt))
           ELSE rest

Init ==
  /\ balance = [a \in AccountId |-> IF a < NumAccounts THEN InitialDeposit ELSE 0]
  /\ currency \in [AccountId -> Currency]
  /\ \A a \in AccountId : a < NumAccounts => currency[a] = "USD"
  /\ updated_at = [a \in AccountId |-> CreatedAt]
  /\ transactions = Deposits(balance, currency, NumAccounts)
  /\ row_lock = [a \in AccountId |-> NULL]
  /\ pc = [p \in Session |-> "idle"]
  /\ request = [p \in Session |-> NoRequest]
  /\ identity_map = [p \in Session |-> <<>>]
  /\ loaded_txn = [p \in Session |-> <<>>]
  /\ result = [p \in Session |-> "none"]
  /\ requests = 0
  /\ clock = CreatedAt + 1
  /\ base = Snapshot(balance, transactions)
  /\ before = Snapshot(balance, transactions)
  /\ batch = 0
  /\ status = [a \in AccountId |-> "active"]
  /\ card_status = "active"
  /\ daily_limit = DailyLimit
  /\ activated_at = CreatedAt
  /\ loaded_card = [p \in Session |-> NULL]
  /\ loaded_status = [p \in Session |-> NULL]
  /\ report = [p \in Session |-> NoReport]
  /\ history = [p \in Session |-> NoHistory]
  /\ observed = [p \in Session |-> NULL]

\* ------------------------------------------------------- request arrival
\* A request arrives at an idle session (a new Session from get_db; sessions
\* are interchangeable, the lowest idle one takes the request).  When
\* no other request is in flight it opens a new batch: the committed state
\* is recorded and the outcomes of the batch before are forgotten.
Arrive(p, req, next, im, lt, card, outcome) ==
  /\ pc[p] = "idle"
  /\ \A q \in Session : q < p => pc[q] # "idle"
  /\ requests < MaxRequests
  /\ requests' = requests + 1
  /\ identity_map' = [identity_map EXCEPT ![p] = im]
  /\ loaded_txn' = [loaded_txn EXCEPT ![p] = lt]
  /\ loaded_card' = [loaded_card EXCEPT ![p] = card]
  /\ loaded_status' = [loaded_status EXCEPT ![p] =
                         IF req.kind = "status" /\ next # "idle"
                         THEN status[req.from_account_id] ELSE NULL]
  /\ pc' = [pc EXCEPT ![p] = next]
  /\ IF Quiescent
     THEN /\ base' = Snapshot(balance, transactions)
          /\ before' = base
          /\ batch' = 1
          /\ result' = [q \in Session |-> IF q = p THEN outcome ELSE "none"]
          /\ request' = [q \in Session |-> IF q = p THEN req ELSE NoRequest]
     ELSE /\ batch' = IF batch > NumSessions THEN batch ELSE batch + 1
          /\ result' = [result EXCEPT ![p] = outcome]
          /\ request' = [request EXCEPT ![p] = req]
          /\ UNCHANGED <<base, before>>
  /\ history' = [q \in Session |->
                   IF q = p \/ Quiescent THEN NoHistory ELSE history[q]]
  /\ observed' = [q \in Session |->
                    IF q = p \/ Quiescent THEN NULL ELSE observed[q]]
  /\ UNCHANGED <<balance, currency, updated_at, transactions, row_lock, clock>>
  /\ UNCHANGED settings

\* A transfer, reversal or card payment request arrives; one that ends in the
\* route (next is "idle") ends with 404
Accept(p, req, next, im, lt) ==
  Arrive(p, req, next, im, lt, NULL, IF next = "idle" THEN "Not found" ELSE "none")

\* A request arrives and is turned down in the route with the given error
Reject(p, req, error) == Arrive(p, req, "idle", <<>>, <<>>, NULL, error)

\* The request ends with an error: db.rollback(), the exception raised, and
\* the session closed (get_db)
Fail(p, error) ==
  /\ pc' = [pc EXCEPT ![p] = "idle"]
  /\ result' = [result EXCEPT ![p] = error]
  /\ row_lock' = Release(p)
  /\ identity_map' = [identity_map EXCEPT ![p] = <<>>]
  /\ loaded_txn' = [loaded_txn EXCEPT ![p] = <<>>]
  /\ loaded_card' = [loaded_card EXCEPT ![p] = NULL]
  /\ loaded_status' = [loaded_status EXCEPT ![p] = NULL]
  /\ UNCHANGED <<balance, currency, updated_at, transactions, request,
                 requests, clock, base, before, batch, settings, history,
                 observed>>

\* The request goes on to its next statement, holding row a in addition
\* (no row when a is NULL)
Proceed(p, next, a, im) ==
  /\ pc' = [pc EXCEPT ![p] = next]
  /\ row_lock' = IF a = NULL THEN row_lock ELSE [row_lock EXCEPT ![a] = p]
  /\ identity_map' = [identity_map EXCEPT ![p] = im]
  /\ UNCHANGED <<balance, currency, updated_at, transactions, request,
                 loaded_txn, result, requests, clock, base, before, batch,
                 settings, history, observed, loaded_card, loaded_status>>

\* db.commit(): the flushed balances and rows become the committed state in
\* one step and the session's holds are released
Commit(p, loaded, current, txns) ==
  /\ balance' = Flush(balance, loaded, current)
  /\ updated_at' = Touch(updated_at, loaded, current, clock)
  /\ transactions' = txns
  /\ clock' = clock + 1
  /\ pc' = [pc EXCEPT ![p] = "idle"]
  /\ result' = [result EXCEPT ![p] = "ok"]
  /\ row_lock' = Release(p)
  /\ identity_map' = [identity_map EXCEPT ![p] = <<>>]
  /\ loaded_txn' = [loaded_txn EXCEPT ![p] = <<>>]
  /\ loaded_card' = [loaded_card EXCEPT ![p] = NULL]
  /\ loaded_status' = [loaded_status EXCEPT ![p] = NULL]
  /\ UNCHANGED <<currency, request, requests, base, before, batch, settings,
                 history, observed>>

\* --------------------------------------------- POST /transactions/transfer
\* routes/transactions.py: the source account is looked up (and loaded into
\* the session) before the service is called
TransferRoute(p) ==
  \E f \in AccountId, n \in {account_number(a) : a \in AccountId} \cup {UnknownNumber},
     amt \in 0..MaxAmount :
    /\ ValidAmount(amt)
    /\ Accept(p, TransferRequest(f, n, amt), "transfer_sender",
              f :> balance[f], <<>>)

\* The body of the request does not validate (amount is not above zero): the
\* request is turned down before the handler runs
\* (whatever the accounts are: here from any account to the first one)
TransferInvalidAmount(p) ==
  \E f \in AccountId, amt \in (0 - 1)..MaxAmount :
    /\ ~ValidAmount(amt)
    /\ Reject(p, TransferRequest(f, account_number(1), amt), "Invalid amount")

TransferRouteNotFound(p) ==
  \E amt \in 1..MaxAmount :
    Accept(p, TransferRequest(UnknownId, UnknownNumber, amt), "idle", <<>>, <<>>)

\* transfer_funds, 1. Validate sender account
TransferSender(p) ==
  LET req == request[p]
      s == req.from_account_id
  IN  /\ pc[p] = "transfer_sender"
      /\ CanHold(p, s)
      /\ SufficientFunds(identity_map[p][s], req.amount)
      /\ Proceed(p, "transfer_receiver", s, identity_map[p])

TransferInsufficientFunds(p) ==
  LET req == request[p]
      s == req.from_account_id
  IN  /\ pc[p] = "transfer_sender"
      /\ CanHold(p, s)
      /\ ~SufficientFunds(identity_map[p][s], req.amount)
      /\ Fail(p, "Insufficient funds")

\* transfer_funds, 2. Validate receiver account
TransferReceiver(p) ==
  LET req == request[p]
      s == req.from_account_id
      r == AccountByNumber(req.to_account_number)
  IN  /\ pc[p] = "transfer_receiver"
      /\ r # NULL
      /\ CanHold(p, r)
      /\ SameCurrency(currency[s], currency[r])
      /\ Proceed(p, "transfer_execute", r, Load(identity_map[p], r, balance))

TransferReceiverNotFound(p) ==
  /\ pc[p] = "transfer_receiver"
  /\ AccountByNumber(request[p].to_account_number) = NULL
  /\ Fail(p, "Receiver account not found")

TransferCurrencyMismatch(p) ==
  LET req == request[p]
      s == req.from_account_id
      r == AccountByNumber(req.to_account_number)
  IN  /\ pc[p] = "transfer_receiver"
      /\ r # NULL
      /\ CanHold(p, r)
      /\ ~SameCurrency(currency[s], currency[r])
      /\ Fail(p, "Currency mismatch")

\* transfer_funds, 3. Execute Transfer, 4. Create Transaction Record, commit
TransferExecute(p) ==
  LET req == request[p]
      s == req.from_account_id
      r == AccountByNumber(req.to_account_number)
      moved == MoveFunds(identity_map[p], s, r, req.amount)
  IN  /\ pc[p] = "transfer_execute"
      /\ \E ref \in GeneratedReferences(transactions) :
           /\ UniqueReference(transactions, ref)
           /\ Commit(p, identity_map[p], moved,
                     Append(transactions,
                            TransferRecord(s, r, req.amount, currency[s],
                                           ref, clock)))

\* The generated reference is already in the table: the INSERT violates the
\* unique constraint, the exception is caught, db.rollback()
TransferReferenceCollision(p) ==
  /\ pc[p] = "transfer_execute"
  /\ \E ref \in GeneratedReferences(transactions) :
       ~UniqueReference(transactions, ref)
  /\ Fail(p, "Conflict")

\* ------------------------------ POST /transactions/{transaction_id}/rollback
\* routes/transactions.py: the transaction is looked up (and loaded into the
\* session), then its source account
RollbackRoute(p) ==
  \E t \in 1..Len(transactions) :
    Accept(p, RollbackRequest(t), "rollback_account", <<>>, t :> transactions[t])

RollbackRouteNotFound(p) ==
  Accept(p, RollbackRequest(Len(transactions) + 1), "idle", <<>>, <<>>)

RollbackAccount(p) ==
  LET orig == loaded_txn[p][request[p].transaction_id]
      f == orig.from_account_id
  IN  /\ pc[p] = "rollback_account"
      /\ f # NULL
      /\ Proceed(p, "rollback_transaction", NULL, f :> balance[f])

RollbackAccountNotFound(p) ==
  /\ pc[p] = "rollback_account"
  /\ loaded_txn[p][request[p].transaction_id].from_account_id = NULL
  /\ Fail(p, "Not found")

\* rollback_transaction: the checks before the try block, on the Transaction
\* object the session already holds
RollbackAlreadyReversed(p) ==
  /\ pc[p] = "rollback_transaction"
  /\ AlreadyReversed(loaded_txn[p][request[p].transaction_id])
  /\ Fail(p, "Transaction already reversed")

RollbackNotTransfer(p) ==
  /\ pc[p] = "rollback_transaction"
  /\ ~AlreadyReversed(loaded_txn[p][request[p].transaction_id])
  /\ ~IsTransfer(loaded_txn[p][request[p].transaction_id])
  /\ Fail(p, "Only transfers can be reversed")

\* rollback_transaction, Update balances: the original source is held first
RollbackSender(p) ==
  LET orig == loaded_txn[p][request[p].transaction_id]
  IN  /\ pc[p] = "rollback_transaction"
      /\ Reversible(orig)
      /\ CanHold(p, orig.from_account_id)
      /\ Proceed(p, "rollback_receiver", orig.from_account_id, identity_map[p])

\* then the original destination, which must still hold the amount
RollbackReceiver(p) ==
  LET orig == loaded_txn[p][request[p].transaction_id]
      r == orig.to_account_id
      im == Load(identity_map[p], r, balance)
  IN  /\ pc[p] = "rollback_receiver"
      /\ CanHold(p, r)
      /\ SufficientFunds(im[r], orig.amount)
      /\ Proceed(p, "rollback_execute", r, im)

RollbackInsufficientFunds(p) ==
  LET orig == loaded_txn[p][request[p].transaction_id]
      r == orig.to_account_id
      im == Load(identity_map[p], r, balance)
  IN  /\ pc[p] = "rollback_receiver"
      /\ CanHold(p, r)
      /\ ~SufficientFunds(im[r], orig.amount)
      /\ Fail(p, "Cannot reverse: Insufficient funds")

\* balances updated, original marked reversed, reversal added, commit
RollbackExecute(p) ==
  LET t == request[p].transaction_id
      orig == loaded_txn[p][t]
      returned == ReturnFunds(identity_map[p], orig.from_account_id,
                              orig.to_account_id, orig.amount)
  IN  /\ pc[p] = "rollback_execute"
      /\ \E ref \in GeneratedReferences(transactions) :
           /\ UniqueReference(transactions, ref)
           /\ Commit(p, identity_map[p], returned,
                     Append(MarkReversed(transactions, t),
                            ReversalRecord(orig, ref, clock)))

RollbackReferenceCollision(p) ==
  /\ pc[p] = "rollback_execute"
  /\ \E ref \in GeneratedReferences(transactions) :
       ~UniqueReference(transactions, ref)
  /\ Fail(p, "Conflict")

\* ------------------------------------------ POST /cards/{card_id}/transactions
\* routes/card_transactions.py: verify_card_ownership looks up the card and
\* its account (both loaded into the session), then the payment is processed
CardPaymentRoute(p) ==
  \E amt \in 1..MaxAmount :
    Arrive(p, CardPaymentRequest(amt), "card_payment",
           CardAccount :> balance[CardAccount], <<>>,
           Card(card_status, daily_limit), "none")

\* Faulty variant of the status check: every card passes
CardActive_Always(card) == TRUE

\* The instrument is in state active
CardActive(card) == card.status = "active"

\* Faulty variant of the account hold of a payment: never waited for
CanHoldAccount_Always(p, a) == TRUE

\* The hold of the card's account, the one transfers take on their source
CanHoldAccount(p, a) == CanHold(p, a)

\* The card is not active: the payment is turned down before anything else
\* is looked at
CardPaymentNotActive(p) ==
  /\ pc[p] = "card_payment"
  /\ ~CardActive(loaded_card[p])
  /\ Fail(p, "Card is not active")

\* The account is held and the daily window and the balance are read under
\* that hold; the payment is within the limit and covered by the balance
CardPaymentAuthorize(p) ==
  LET amt == request[p].amount
  IN  /\ pc[p] = "card_payment"
      /\ CardActive(loaded_card[p])
      /\ CanHoldAccount(p, CardAccount)
      /\ WithinLimit(DailySpending(transactions, CardId, Len(transactions)),
                     amt, loaded_card[p].daily_limit)
      /\ SufficientFunds(balance[CardAccount], amt)
      /\ Proceed(p, "card_payment_debit", CardAccount,
                 CardAccount :> balance[CardAccount])

CardPaymentLimitExceeded(p) ==
  /\ pc[p] = "card_payment"
  /\ CardActive(loaded_card[p])
  /\ CanHoldAccount(p, CardAccount)
  /\ ~WithinLimit(DailySpending(transactions, CardId, Len(transactions)),
                  request[p].amount, loaded_card[p].daily_limit)
  /\ Fail(p, "Limit exceeded")

CardPaymentInsufficientFunds(p) ==
  /\ pc[p] = "card_payment"
  /\ CardActive(loaded_card[p])
  /\ CanHoldAccount(p, CardAccount)
  /\ WithinLimit(DailySpending(transactions, CardId, Len(transactions)),
                 request[p].amount, loaded_card[p].daily_limit)
  /\ ~SufficientFunds(balance[CardAccount], request[p].amount)
  /\ Fail(p, "Insufficient funds")

\* The authorized payment is debited and its card_payment record added, in
\* one commit, still under the hold
CardPaymentApproved(p) ==
  LET amt == request[p].amount
      held == identity_map[p]
  IN  /\ pc[p] = "card_payment_debit"
      /\ Commit(p, held, CardAccount :> Debit(held[CardAccount], amt),
                Append(transactions,
                       CardPaymentRecord(CardId, CardAccount, amt,
                                         currency[CardAccount],
                                         FreshReference(transactions), clock)))

\* ------------------------------------------------- the other card requests
\* db.commit() of a request that changed the card: the attributes it set are
\* written, the others stay as committed
CommitCard(p, st, limit, activated) ==
  /\ card_status' = st
  /\ daily_limit' = limit
  /\ activated_at' = activated
  /\ pc' = [pc EXCEPT ![p] = "idle"]
  /\ result' = [result EXCEPT ![p] = "ok"]
  /\ row_lock' = Release(p)
  /\ identity_map' = [identity_map EXCEPT ![p] = <<>>]
  /\ loaded_txn' = [loaded_txn EXCEPT ![p] = <<>>]
  /\ loaded_card' = [loaded_card EXCEPT ![p] = NULL]
  /\ loaded_status' = [loaded_status EXCEPT ![p] = NULL]
  /\ UNCHANGED <<balance, currency, updated_at, transactions, request,
                 requests, clock, base, before, batch, status, report,
                 history, observed>>

\* routes/cards.py, POST /cards/{card_id}/activate: the card and its account
\* are looked up before the service is called
ActivateCardRoute(p) ==
  \E pin \in Pin :
    Arrive(p, CardRequest("activate", pin, NULL), "activate_card",
           CardAccount :> balance[CardAccount], <<>>,
           Card(card_status, daily_limit), "none")

\* activate_card: card.status != CardStatus.INACTIVE
ActivateCardNotInactive(p) ==
  /\ pc[p] = "activate_card"
  /\ loaded_card[p].status # "inactive"
  /\ Fail(p, "Card is already " \o loaded_card[p].status)

\* activate_card: stored_pin_hash != pin_hash
ActivateCardInvalidPin(p) ==
  /\ pc[p] = "activate_card"
  /\ loaded_card[p].status = "inactive"
  /\ ~PinMatches(request[p].pin)
  /\ Fail(p, "Invalid PIN")

\* activate_card: card.status = CardStatus.ACTIVE, card.activated_at = now,
\* commit
ActivateCard(p) ==
  /\ pc[p] = "activate_card"
  /\ loaded_card[p].status = "inactive"
  /\ PinMatches(request[p].pin)
  /\ CommitCard(p, "active", daily_limit, clock)

\* routes/cards.py, POST /cards/{card_id}/deactivate
DeactivateCardRoute(p) ==
  Arrive(p, CardRequest("deactivate", NULL, NULL), "deactivate_card",
         CardAccount :> balance[CardAccount], <<>>,
         Card(card_status, daily_limit), "none")

\* deactivate_card: card.status == CardStatus.BLOCKED
DeactivateCardAlreadyBlocked(p) ==
  /\ pc[p] = "deactivate_card"
  /\ loaded_card[p].status = "blocked"
  /\ Fail(p, "Card is already blocked")

\* deactivate_card: card.status = CardStatus.BLOCKED, commit
DeactivateCard(p) ==
  /\ pc[p] = "deactivate_card"
  /\ loaded_card[p].status # "blocked"
  /\ CommitCard(p, "blocked", daily_limit, activated_at)

\* CardLimitUpdate: new_limit >= 0
ValidLimit(limit) == limit >= 0

\* routes/cards.py, PUT /cards/{card_id}/limit
UpdateDailyLimitRoute(p) ==
  \E limit \in 0..DailyLimit :
    /\ ValidLimit(limit)
    /\ Arrive(p, CardRequest("limit", NULL, limit), "update_daily_limit",
              CardAccount :> balance[CardAccount], <<>>,
              Card(card_status, daily_limit), "none")

\* The body of the request does not validate (new_limit is below zero)
UpdateDailyLimitInvalid(p) ==
  \E limit \in {0 - 1} :
    /\ ~ValidLimit(limit)
    /\ Reject(p, CardRequest("limit", NULL, limit), "Invalid limit")

\* update_daily_limit: card.daily_limit = new_limit, commit (no UPDATE when
\* the new limit is the one the session's object already has)
UpdateDailyLimit(p) ==
  /\ pc[p] = "update_daily_limit"
  /\ CommitCard(p, card_status,
                IF request[p].new_limit # loaded_card[p].daily_limit
                THEN request[p].new_limit ELSE daily_limit,
                activated_at)

\* routes/card_transactions.py, GET /cards/{card_id}/daily-spending:
\* verify_card_ownership looks up the card
DailySpendingRoute(p) ==
  Arrive(p, CardRequest("daily_spending", NULL, NULL), "daily_spending",
         CardAccount :> balance[CardAccount], <<>>,
         Card(card_status, daily_limit), "none")

\* The body of the daily-spending response
DailySpendingResponse(card, spent) ==
  [daily_limit |-> card.daily_limit, spent_today |-> spent,
   remaining_limit |-> card.daily_limit - spent]

\* get_daily_spending route: spent is read, remaining = card.daily_limit - spent
GetDailySpending(p) ==
  /\ pc[p] = "daily_spending"
  /\ report' = [report EXCEPT ![p] =
                  DailySpendingResponse(loaded_card[p],
                    DailySpending(transactions, CardId, Len(transactions)))]
  /\ pc' = [pc EXCEPT ![p] = "idle"]
  /\ result' = [result EXCEPT ![p] = "ok"]
  /\ identity_map' = [identity_map EXCEPT ![p] = <<>>]
  /\ loaded_card' = [loaded_card EXCEPT ![p] = NULL]
  /\ loaded_status' = [loaded_status EXCEPT ![p] = NULL]
  /\ UNCHANGED <<balance, currency, updated_at, transactions, row_lock,
                 request, loaded_txn, requests, clock, base, before, batch,
                 status, card_status, daily_limit, activated_at, history,
                 observed>>

\* ------------------------------- GET /accounts/{account_id}/transactions
\* None, for a query parameter of which 0 is a value
Absent == 0 - 1

\* No transaction_type given
NoType == ""

\* TransactionFilter (schemas/transaction.py): each field Optional
TransactionFilter(start_date, end_date, transaction_type, min_amount, max_amount) ==
  [start_date |-> start_date, end_date |-> end_date,
   transaction_type |-> transaction_type,
   min_amount |-> min_amount, max_amount |-> max_amount]

\* The history of account a, with the filters and the page asked for
HistoryRequest(a, filters, skip, limit) ==
  [kind |-> "history", from_account_id |-> a, to_account_number |-> NULL,
   amount |-> NULL, transaction_id |-> NULL, pin |-> NULL, new_limit |-> NULL,
   new_status |-> NULL, filters |-> filters, skip |-> skip, limit |-> limit]

\* The values the query parameters are drawn from: a date is absent or the
\* tick of the first commit, an amount bound absent, 0 or a positive amount
StartDates == {Absent, CreatedAt + 1}
EndDates == {Absent, CreatedAt + 1}
TransactionTypes == {NoType, "transfer"}
MinAmounts == {Absent, 0, MaxAmount}
MaxAmounts == {Absent, 0, 1}
MaxSkip == 1
MaxLimit == 2

\* The number of bounds a request may give at once
MaxBounds == 2

\* The number of bounds the filters give
Bounds(filters) ==
  Cardinality({f \in {"start_date", "end_date", "min_amount", "max_amount"} :
                 filters[f] # Absent})
    + (IF filters.transaction_type # NoType THEN 1 ELSE 0)

\* "if filters.min_amount:" and the like: the truth value of an Optional
\* number or datetime (None is false, and so is a Decimal of 0)
Truthy(x) == x # Absent /\ x # 0

\* "if filters.transaction_type:": None and the empty string are false
TruthyType(x) == x # NoType

\* The WHERE clause get_transaction_history builds: the account is source or
\* destination, and each filter whose "if" is taken
Selected(txn, account_id, filters) ==
  /\ (txn.from_account_id = account_id \/ txn.to_account_id = account_id)
  /\ (Truthy(filters.start_date) => txn.created_at >= filters.start_date)
  /\ (Truthy(filters.end_date) => txn.created_at <= filters.end_date)
  /\ (TruthyType(filters.transaction_type)
        => txn.transaction_type = filters.transaction_type)
  /\ (Truthy(filters.min_amount) => txn.amount >= filters.min_amount)
  /\ (Truthy(filters.max_amount) => txn.amount <= filters.max_amount)

\* order_by(Transaction.created_at.desc()) of the rows with the given ids
\* (rows of one account never share a created_at here: one tick per commit)
RECURSIVE OrderByCreatedAtDesc(_, _)
OrderByCreatedAtDesc(txns, ids) ==
  IF ids = {} THEN <<>>
  ELSE LET latest == CHOOSE i \in ids :
                       \A j \in ids : txns[j].created_at <= txns[i].created_at
       IN  <<txns[latest]>> \o OrderByCreatedAtDesc(txns, ids \ {latest})

\* .offset(skip).limit(limit)
Page(rows, skip, limit) ==
  SubSeq(rows, skip + 1,
         IF skip + limit < Len(rows) THEN skip + limit ELSE Len(rows))

\* TransactionService.get_transaction_history
get_transaction_history(txns, account_id, skip, limit, filters) ==
  Page(OrderByCreatedAtDesc(txns,
         {i \in 1..Len(txns) : Selected(txns[i], account_id, filters)}),
       skip, limit)

\* routes/transactions.py, get_account_transactions: the account is looked
\* up before the service is called
HistoryRoute(p, bounds) ==
  /\ pc[p] = "idle"
  /\ requests < MaxRequests
  /\ \E start_date \in StartDates, end_date \in EndDates,
        transaction_type \in TransactionTypes,
        min_amount \in MinAmounts, max_amount \in MaxAmounts :
       LET filters == TransactionFilter(start_date, end_date, transaction_type,
                                        min_amount, max_amount)
       IN  /\ Bounds(filters) <= bounds
           /\ \E a \in AccountId, skip \in 0..MaxSkip, limit \in 1..MaxLimit :
                Arrive(p, HistoryRequest(a, filters, skip, limit),
                       "get_transaction_history", a :> balance[a], <<>>,
                       NULL, "none")

GetAccountTransactionsRoute(p) == HistoryRoute(p, MaxBounds)

\* ... with no filter given
GetAccountTransactionsUnfiltered(p) == HistoryRoute(p, 0)

\* ... and an account that does not exist ends the request with 404
GetAccountTransactionsRouteNotFound(p) ==
  Arrive(p, HistoryRequest(UnknownId,
              TransactionFilter(Absent, Absent, NoType, Absent, Absent), 0, 1),
         "idle", <<>>, <<>>, NULL, "Not found")

\* get_transaction_history: the query runs on the committed table, without
\* with_for_update(), and its rows are the response
GetTransactionHistory(p) ==
  LET req == request[p]
  IN  /\ pc[p] = "get_transaction_history"
      /\ history' = [history EXCEPT ![p] =
                       get_transaction_history(transactions, req.from_account_id,
                                               req.skip, req.limit, req.filters)]
      /\ pc' = [pc EXCEPT ![p] = "idle"]
      /\ result' = [result EXCEPT ![p] = "ok"]
      /\ identity_map' = [identity_map EXCEPT ![p] = <<>>]
      /\ UNCHANGED <<balance, currency, updated_at, transactions, row_lock,
                     request, loaded_txn, requests, clock, base, before, batch,
                     settings, observed, loaded_card, loaded_status>>

\* ------------------------------------- GET /accounts/{account_id}/balance
BalanceRequest(a) ==
  [kind |-> "balance", from_account_id |-> a, to_account_number |-> NULL,
   amount |-> NULL, transaction_id |-> NULL, pin |-> NULL, new_limit |-> NULL,
   new_status |-> NULL, filters |-> NULL, skip |-> NULL, limit |-> NULL]

\* routes/accounts.py, get_account_balance: a request for the balance of an
\* account arrives
GetAccountBalanceRoute(p) ==
  \E a \in AccountId :
    Arrive(p, BalanceRequest(a), "get_account_balance", <<>>, <<>>, NULL, "none")

\* AccountService.get_account_by_id finds no row: 404
GetAccountBalanceNotFound(p) ==
  Arrive(p, BalanceRequest(UnknownId), "idle", <<>>, <<>>, NULL, "Not found")

\* The account is read without with_for_update() (a row held by another
\* session does not make the query wait) and its balance is the response
GetAccountBalance(p) ==
  /\ pc[p] = "get_account_balance"
  /\ observed' = [observed EXCEPT ![p] = balance[request[p].from_account_id]]
  /\ pc' = [pc EXCEPT ![p] = "idle"]
  /\ result' = [result EXCEPT ![p] = "ok"]
  /\ UNCHANGED <<balance, currency, updated_at, transactions, row_lock,
                 request, identity_map, loaded_txn, requests, clock, base,
                 before, batch, settings, history, loaded_card, loaded_status>>

\* ------------------------------------------ PUT /accounts/{account_id}/status
\* routes/accounts.py: the account is looked up (and loaded into the
\* session) before the service is called
UpdateAccountStatusRoute(p) ==
  \E a \in AccountId, st \in AccountStatus \cup {UnknownStatus} :
    Arrive(p, StatusRequest(a, st), "update_account_status",
           a :> balance[a], <<>>, NULL, "none")

UpdateAccountStatusRouteNotFound(p) ==
  \E st \in AccountStatus :
    Arrive(p, StatusRequest(UnknownId, st), "idle", <<>>, <<>>, NULL, "Not found")

\* update_account_status: new_status not in [s.value for s in AccountStatus]
UpdateAccountStatusInvalid(p) ==
  /\ pc[p] = "update_account_status"
  /\ request[p].new_status \notin AccountStatus
  /\ Fail(p, "Invalid status")

\* update_account_status: account.status = AccountStatus(new_status), commit
\* (the row is written, and its updated_at set, when the new status is not
\* the one the session's object already has; no hold is asked for)
UpdateAccountStatus(p) ==
  LET a == request[p].from_account_id
      st == request[p].new_status
      written == st # loaded_status[p]
  IN  /\ pc[p] = "update_account_status"
      /\ st \in AccountStatus
      /\ status' = IF written THEN [status EXCEPT ![a] = st] ELSE status
      /\ updated_at' = IF written THEN [updated_at EXCEPT ![a] = clock]
                       ELSE updated_at
      /\ clock' = clock + 1
      /\ pc' = [pc EXCEPT ![p] = "idle"]
      /\ result' = [result EXCEPT ![p] = "ok"]
      /\ row_lock' = Release(p)
      /\ identity_map' = [identity_map EXCEPT ![p] = <<>>]
      /\ loaded_txn' = [loaded_txn EXCEPT ![p] = <<>>]
      /\ loaded_card' = [loaded_card EXCEPT ![p] = NULL]
      /\ loaded_status' = [loaded_status EXCEPT ![p] = NULL]
      /\ UNCHANGED <<balance, currency, transactions, request, requests,
                     base, before, batch, card_status, daily_limit,
                     activated_at, report, history, observed>>

\* ------------------------------------------------------------ row holds
\* The row session p is asking a hold on, NULL when it is asking for none
Wanted(p) ==
  CASE pc[p] = "transfer_sender" -> request[p].from_account_id
    [] pc[p] = "transfer_receiver" -> AccountByNumber(request[p].to_account_number)
    [] pc[p] = "rollback_transaction"
         /\ Reversible(loaded_txn[p][request[p].transaction_id]) ->
           loaded_txn[p][request[p].transaction_id].from_account_id
    [] pc[p] = "rollback_receiver" ->
           loaded_txn[p][request[p].transaction_id].to_account_id
    [] pc[p] = "card_payment" /\ CardActive(loaded_card[p]) -> CardAccount
    [] OTHER -> NULL

\* Session p waits for a row that session q holds
WaitsFor(p, q) == Wanted(p) # NULL /\ q # p /\ row_lock[Wanted(p)] = q

\* Two sessions wait for each other: the database ends the wait of one of
\* them with an error; the exception is caught, db.rollback()
DeadlockVictim(p) ==
  /\ \E q \in Session : WaitsFor(p, q) /\ WaitsFor(q, p)
  /\ Fail(p, "Busy")

\* ----------------------------------------------------------------- Next
Next ==
  \E p \in Session :
    \/ TransferRoute(p)
    \/ TransferRouteNotFound(p)
    \/ TransferInvalidAmount(p)
    \/ TransferSender(p)
    \/ TransferInsufficientFunds(p)
    \/ TransferReceiver(p)
    \/ TransferReceiverNotFound(p)
    \/ TransferCurrencyMismatch(p)
    \/ TransferExecute(p)
    \/ TransferReferenceCollision(p)
    \/ RollbackRoute(p)
    \/ RollbackRouteNotFound(p)
    \/ RollbackAccount(p)
    \/ RollbackAccountNotFound(p)
    \/ RollbackAlreadyReversed(p)
    \/ RollbackNotTransfer(p)
    \/ RollbackSender(p)
    \/ RollbackReceiver(p)
    \/ RollbackInsufficientFunds(p)
    \/ RollbackExecute(p)
    \/ RollbackReferenceCollision(p)
    \/ CardPaymentRoute(p)
    \/ CardPaymentAuthorize(p)
    \/ CardPaymentApproved(p)
    \/ CardPaymentLimitExceeded(p)
    \/ CardPaymentInsufficientFunds(p)
    \/ DeadlockVictim(p)

Spec == Init /\ [][Next]_vars

\* ------------------------------------------------ the card on its own
\* The card as create_card left it (inactive) or activated since, with the
\* daily limit it was created with
CardInit ==
  /\ balance = [a \in AccountId |-> IF a < NumAccounts THEN InitialDeposit ELSE 0]
  /\ currency = [a \in AccountId |-> "USD"]
  /\ updated_at = [a \in AccountId |-> CreatedAt]
  /\ transactions = Deposits(balance, currency, NumAccounts)
  /\ row_lock = [a \in AccountId |-> NULL]
  /\ pc = [p \in Session |-> "idle"]
  /\ request = [p \in Session |-> NoRequest]
  /\ identity_map = [p \in Session |-> <<>>]
  /\ loaded_txn = [p \in Session |-> <<>>]
  /\ result = [p \in Session |-> "none"]
  /\ requests = 0
  /\ clock = CreatedAt + 1
  /\ base = Snapshot(balance, transactions)
  /\ before = Snapshot(balance, transactions)
  /\ batch = 0
  /\ status = [a \in AccountId |-> "active"]
  /\ card_status \in {"inactive", "active"}
  /\ daily_limit \in 0..DailyLimit
  /\ activated_at = IF card_status = "active" THEN CreatedAt ELSE NULL
  /\ loaded_card = [p \in Session |-> NULL]
  /\ loaded_status = [p \in Session |-> NULL]
  /\ report = [p \in Session |-> NoReport]
  /\ history = [p \in Session |-> NoHistory]
  /\ observed = [p \in Session |-> NULL]

CardNext ==
  \E p \in Session :
    \/ CardPaymentRoute(p)
    \/ CardPaymentNotActive(p)
    \/ CardPaymentAuthorize(p)
    \/ CardPaymentLimitExceeded(p)
    \/ CardPaymentInsufficientFunds(p)
    \/ CardPaymentApproved(p)
    \/ ActivateCardRoute(p)
    \/ ActivateCardNotInactive(p)
    \/ ActivateCardInvalidPin(p)
    \/ ActivateCard(p)
    \/ DeactivateCardRoute(p)
    \/ DeactivateCardAlreadyBlocked(p)
    \/ DeactivateCard(p)
    \/ UpdateDailyLimitRoute(p)
    \/ UpdateDailyLimitInvalid(p)
    \/ UpdateDailyLimit(p)
    \/ DailySpendingRoute(p)
    \/ GetDailySpending(p)

CardSpec == CardInit /\ [][CardNext]_vars

\* ------------------------------- transfers and the status of the accounts
StatusNext ==
  \E p \in Session :
    \/ TransferRoute(p)
    \/ TransferRouteNotFound(p)
    \/ TransferInvalidAmount(p)
    \/ TransferSender(p)
    \/ TransferInsufficientFunds(p)
    \/ TransferReceiver(p)
    \/ TransferReceiverNotFound(p)
    \/ TransferCurrencyMismatch(p)
    \/ TransferExecute(p)
    \/ TransferReferenceCollision(p)
    \/ UpdateAccountStatusRoute(p)
    \/ UpdateAccountStatusRouteNotFound(p)
    \/ UpdateAccountStatusInvalid(p)
    \/ UpdateAccountStatus(p)
    \/ DeadlockVictim(p)

StatusSpec == Init /\ [][StatusNext]_vars

\* ------------- transfers and history requests, served one after another
HistoryNext ==
  \E p \in {1} :
    \/ TransferRoute(p)
    \/ TransferRouteNotFound(p)
    \/ TransferInvalidAmount(p)
    \/ TransferSender(p)
    \/ TransferInsufficientFunds(p)
    \/ TransferReceiver(p)
    \/ TransferReceiverNotFound(p)
    \/ TransferCurrencyMismatch(p)
    \/ TransferExecute(p)
    \/ TransferReferenceCollision(p)
    \/ GetAccountTransactionsRoute(p)
    \/ GetAccountTransactionsRouteNotFound(p)
    \/ GetTransactionHistory(p)

HistorySpec == Init /\ [][HistoryNext]_vars

\* --------------------- transfers and reversals, with readers beside them
\* (with no card payment in the table, every record that has a source account
\* is a transfer: the type check of rollback_transaction always passes)
ObserverNext ==
  \E p \in Session :
    \/ TransferRoute(p)
    \/ TransferRouteNotFound(p)
    \/ TransferInvalidAmount(p)
    \/ TransferSender(p)
    \/ TransferInsufficientFunds(p)
    \/ TransferReceiver(p)
    \/ TransferReceiverNotFound(p)
    \/ TransferCurrencyMismatch(p)
    \/ TransferExecute(p)
    \/ TransferReferenceCollision(p)
    \/ RollbackRoute(p)
    \/ RollbackRouteNotFound(p)
    \/ RollbackAccount(p)
    \/ RollbackAccountNotFound(p)
    \/ RollbackAlreadyReversed(p)
    \/ RollbackSender(p)
    \/ RollbackReceiver(p)
    \/ RollbackInsufficientFunds(p)
    \/ RollbackExecute(p)
    \/ RollbackReferenceCollision(p)
    \/ GetAccountBalanceRoute(p)
    \/ GetAccountBalanceNotFound(p)
    \/ GetAccountBalance(p)
    \/ GetAccountTransactionsUnfiltered(p)
    \/ GetTransactionHistory(p)
    \/ DeadlockVictim(p)

ObserverSpec == Init /\ [][ObserverNext]_vars

\* ======================================================== the properties
\* The request of session p has been served
Served(p) == pc[p] = "idle" /\ request[p].kind # "none"

\* ... and no other request was in flight while it was: the committed state
\* went from base to the present one by this request alone
Alone(p) == batch = 1 /\ Served(p)

Succeeded(p) == Served(p) /\ result[p] = "ok"

RECURSIVE Total(_, _)
Total(bal, n) == IF n = 0 THEN 0 ELSE bal[n] + Total(bal, n - 1)

\* Source and destination account of the request of session p; for a
\* reversal, those of the transaction it reverses
Original(p) == base.transactions[request[p].transaction_id]

Source(p) ==
  IF request[p].kind = "transfer" THEN request[p].from_account_id
  ELSE Original(p).from_account_id

Destination(p) ==
  IF request[p].kind = "transfer" THEN AccountByNumber(request[p].to_account_number)
  ELSE Original(p).to_account_id

LastTransaction == transactions[Len(transactions)]

\* C1: a successful transfer and a successful reversal, served alone, leave
\* the sum of the source and the destination balance, and the sum of all
\* balances, as they were before the request.
C1_MoneyConserved ==
  \A p \in Session :
    (Alone(p) /\ Succeeded(p) /\ request[p].kind \in {"transfer", "rollback"}) =>
      /\ balance[Source(p)] + balance[Destination(p)]
           = base.balance[Source(p)] + base.balance[Destination(p)]
      /\ Total(balance, NumAccounts) = Total(base.balance, NumAccounts)

C1_Witness ==
  \E p \in Session :
    /\ Alone(p) /\ Succeeded(p) /\ request[p].kind = "rollback"
    /\ Source(p) # Destination(p)
    /\ balance[Source(p)] > base.balance[Source(p)]

\* C2: a transfer, served alone, of more than the balance of its source ends
\* with "Insufficient funds" and leaves every balance and the transactions
\* table as they were.
C2_InsufficientFundsRejected ==
  \A p \in Session :
    (/\ Alone(p) /\ request[p].kind = "transfer"
     /\ request[p].from_account_id \in AccountId
     /\ request[p].amount > base.balance[request[p].from_account_id]) =>
      /\ result[p] = "Insufficient funds"
      /\ balance = base.balance
      /\ transactions = base.transactions

C2_Witness ==
  \E p \in Session :
    /\ Alone(p) /\ request[p].kind = "transfer"
    /\ request[p].from_account_id \in AccountId
    /\ request[p].amount > base.balance[request[p].from_account_id]
    /\ base.balance[request[p].from_account_id] > 0
    /\ AccountByNumber(request[p].to_account_number) # NULL
    /\ result[p] = "Insufficient funds"

\* C3: a successful transfer of amount a, served alone, takes a from the
\* balance of the source and adds a to the balance of the destination (on the
\* one record when they are the same account), changes no other balance, and
\* appends one record: type transfer, status completed, amount a, the source
\* and destination ids, completed_at set.
C3_TransferApplied ==
  \A p \in Session :
    (Alone(p) /\ Succeeded(p) /\ request[p].kind = "transfer") =>
      LET s == Source(p)
          r == Destination(p)
          a == request[p].amount
          debited == [base.balance EXCEPT ![s] = @ - a]
      IN  /\ balance = [debited EXCEPT ![r] = @ + a]
          /\ Len(transactions) = Len(base.transactions) + 1
          /\ SubSeq(transactions, 1, Len(base.transactions)) = base.transactions
          /\ LastTransaction.transaction_type = "transfer"
          /\ LastTransaction.status = "completed"
          /\ LastTransaction.amount = a
          /\ LastTransaction.from_account_id = s
          /\ LastTransaction.to_account_id = r
          /\ LastTransaction.completed_at # NULL

C3_Witness ==
  \E p \in Session :
    /\ Alone(p) /\ Succeeded(p) /\ request[p].kind = "transfer"
    /\ Source(p) # Destination(p)
    /\ balance[Source(p)] = base.balance[Source(p)] - request[p].amount
    /\ balance[Destination(p)] = base.balance[Destination(p)] + request[p].amount

\* The request of session p reversed the transaction that the batch before
\* it had appended, and nothing else was committed in that batch: `before' is
\* the committed state before that transaction
ReversedAtOnce(p) ==
  /\ Alone(p) /\ Succeeded(p) /\ request[p].kind = "rollback"
  /\ request[p].transaction_id = Len(base.transactions)
  /\ Len(base.transactions) = Len(before.transactions) + 1
  /\ Original(p).transaction_type = "transfer"
  /\ Original(p).status = "completed"

\* C4: reversing a completed transfer, with nothing committed in between,
\* gives the source and the destination the balances they had before the
\* transfer, and the original transaction has status reversed.
C4_ReversalRestores ==
  \A p \in Session :
    ReversedAtOnce(p) =>
      /\ balance[Source(p)] = before.balance[Source(p)]
      /\ balance[Destination(p)] = before.balance[Destination(p)]
      /\ transactions[request[p].transaction_id].status = "reversed"

C4_Witness ==
  \E p \in Session :
    /\ ReversedAtOnce(p)
    /\ Source(p) # Destination(p)
    /\ base.balance[Source(p)] # before.balance[Source(p)]

\* C5: a reversal, served alone, of a transaction whose status is reversed
\* ends with "Transaction already reversed" and leaves every balance and the
\* transactions table (the status of the original included) as they were.
C5_AlreadyReversedRejected ==
  \A p \in Session :
    (/\ Alone(p) /\ request[p].kind = "rollback"
     /\ request[p].transaction_id <= Len(base.transactions)
     /\ Original(p).status = "reversed") =>
      /\ result[p] = "Transaction already reversed"
      /\ balance = base.balance
      /\ transactions = base.transactions

C5_Witness ==
  \E p \in Session :
    /\ Alone(p) /\ request[p].kind = "rollback"
    /\ request[p].transaction_id <= Len(base.transactions)
    /\ Original(p).status = "reversed"
    /\ result[p] = "Transaction already reversed"

\* Two requests were served in the batch, p's and q's, overlapping in time
Together(p, q) == p # q /\ batch = 2 /\ Served(p) /\ Served(q)

\* p's and q's requests are transfers of one amount from one account, whose
\* balance covered both, to two other accounts
SameSourceTransfers(p, q) ==
  /\ Together(p, q)
  /\ request[p].kind = "transfer" /\ request[q].kind = "transfer"
  /\ request[p].from_account_id = request[q].from_account_id
  /\ request[p].amount = request[q].amount
  /\ Destination(p) # NULL /\ Destination(q) # NULL
  /\ Destination(p) # Destination(q)
  /\ Destination(p) # Source(p) /\ Destination(q) # Source(q)
  /\ base.balance[Source(p)] >= 2 * request[p].amount

\* C6: when two transfers of amount a from one account X with balance
\* B >= 2a to two other accounts are served concurrently and both succeed,
\* X ends with B - 2a and each destination with a more than it had.
C6_NoLostUpdates ==
  \A p, q \in Session :
    (SameSourceTransfers(p, q) /\ Succeeded(p) /\ Succeeded(q)) =>
      /\ balance[Source(p)] = base.balance[Source(p)] - 2 * request[p].amount
      /\ balance[Destination(p)] = base.balance[Destination(p)] + request[p].amount
      /\ balance[Destination(q)] = base.balance[Destination(q)] + request[q].amount

\* C7: in every reachable state the balance of every account is at least
\* zero.
C7_NonNegativeBalances == \A a \in AccountId : balance[a] >= 0

\* A transfer and a card payment on one account, served concurrently, each
\* of the full balance of the account, both succeeded
C7_Witness ==
  \E p, q \in Session :
    /\ Together(p, q) /\ Succeeded(p) /\ Succeeded(q)
    /\ request[p].kind = "transfer" /\ request[q].kind = "card_payment"
    /\ Source(p) = CardAccount
    /\ request[p].amount = base.balance[CardAccount]
    /\ request[q].amount = base.balance[CardAccount]
    /\ balance[CardAccount] = 0

\* The statements of transfer_funds
TransferPcs == {"transfer_sender", "transfer_receiver", "transfer_execute"}

\* This step is a step of the transfer of session p
TransferStep(p) == pc[p] \in TransferPcs /\ pc'[p] # pc[p]

\* Rows this step flushed an UPDATE for, and rows whose balance it changed
Touched == {a \in AccountId : updated_at'[a] # updated_at[a]}

Changed == {a \in AccountId : balance'[a] # balance[a]}

\* This step committed nothing and the transfer of p has not succeeded
NothingCommitted(p) ==
  /\ transactions' = transactions
  /\ Touched = {}
  /\ Changed = {}
  /\ result'[p] # "ok"

\* This step committed the transfer of p: one record more, and UPDATEs for
\* exactly the given rows
TransferCommitted(p, rows) ==
  /\ result'[p] = "ok"
  /\ Len(transactions') = Len(transactions) + 1
  /\ SubSeq(transactions', 1, Len(transactions)) = transactions
  /\ transactions'[Len(transactions')].transaction_type = "transfer"
  /\ transactions'[Len(transactions')].from_account_id = request[p].from_account_id
  /\ transactions'[Len(transactions')].to_account_id
       = AccountByNumber(request[p].to_account_number)
  /\ Touched = rows
  /\ Changed \subseteq Touched

\* C8 (as amended): every step of a transfer either commits nothing, or
\* commits one new transfer record together with the balances of both the
\* source and the destination when they are two accounts, and one new
\* transfer record with no balance written when they are the same account.
C8_AllOrNothing ==
  [][\A p \in Session :
       TransferStep(p) =>
         LET s == request[p].from_account_id
             r == AccountByNumber(request[p].to_account_number)
         IN  \/ NothingCommitted(p)
             \/ TransferCommitted(p, IF s # r THEN {s, r} ELSE {})]_vars

\* A transfer failed at the insertion of its record, after both balances
\* were updated in the session: nothing of it is committed
C8_Witness ==
  \E p \in Session :
    /\ Alone(p) /\ request[p].kind = "transfer"
    /\ result[p] = "Conflict"
    /\ Source(p) # Destination(p)
    /\ balance = base.balance
    /\ transactions = base.transactions

\* C8 (as stated): every step of a transfer either commits nothing, or
\* commits one new transfer record together with two balances.
C8_BothOrNeither ==
  [][\A p \in Session :
       TransferStep(p) =>
         LET s == request[p].from_account_id
             r == AccountByNumber(request[p].to_account_number)
         IN  \/ NothingCommitted(p)
             \/ /\ TransferCommitted(p, {s, r})
                /\ Cardinality(Touched) = 2]_vars

\* C9: no two sessions are ever each holding a row the other waits for.
C9_NoCircularWait ==
  \A p, q \in Session : ~(WaitsFor(p, q) /\ WaitsFor(q, p))

\* p's and q's requests are reversals of one transaction, a completed
\* transfer between two accounts when they arrived
SameReversals(p, q) ==
  /\ Together(p, q)
  /\ request[p].kind = "rollback" /\ request[q].kind = "rollback"
  /\ request[p].transaction_id = request[q].transaction_id
  /\ request[p].transaction_id <= Len(base.transactions)
  /\ Original(p).transaction_type = "transfer"
  /\ Original(p).status = "completed"
  /\ Source(p) # Destination(p)

\* C10: when two reversals of one completed transfer are served
\* concurrently, at most one succeeds, at most one record is added and the
\* original destination is debited the amount at most once.
C10_ReversedAtMostOnce ==
  \A p, q \in Session :
    SameReversals(p, q) =>
      /\ ~(Succeeded(p) /\ Succeeded(q))
      /\ Len(transactions) <= Len(base.transactions) + 1
      /\ balance[Destination(p)] >= base.balance[Destination(p)] - Original(p).amount
      /\ balance[Source(p)] <= base.balance[Source(p)] + Original(p).amount

\* p's request is a transfer, served alone, of an amount above zero between
\* two accounts of different currencies
CrossCurrencyTransfer(p) ==
  /\ Alone(p) /\ request[p].kind = "transfer"
  /\ ValidAmount(request[p].amount)
  /\ request[p].from_account_id \in AccountId
  /\ Destination(p) # NULL
  /\ currency[Source(p)] # currency[Destination(p)]

\* C15 (as amended): a transfer of an amount above zero between two accounts
\* of different currencies
\* fails and leaves every balance and the transactions table as they were;
\* the error is "Currency mismatch" when the amount does not exceed the
\* balance of the source, and "Insufficient funds", which is checked first,
\* when it does.
C15_CurrencyMismatchRejected ==
  \A p \in Session :
    CrossCurrencyTransfer(p) =>
      /\ result[p] = IF request[p].amount <= base.balance[Source(p)]
                     THEN "Currency mismatch" ELSE "Insufficient funds"
      /\ balance = base.balance
      /\ transactions = base.transactions

C15_Witness ==
  \E p \in Session :
    /\ CrossCurrencyTransfer(p)
    /\ request[p].amount <= base.balance[Source(p)]
    /\ result[p] = "Currency mismatch"

\* C15 (as stated): a transfer between two accounts of different currencies
\* fails with "Currency mismatch" and leaves every balance and the
\* transactions table as they were.
C15_AlwaysCurrencyMismatch ==
  \A p \in Session :
    CrossCurrencyTransfer(p) =>
      /\ result[p] = "Currency mismatch"
      /\ balance = base.balance
      /\ transactions = base.transactions

\* C17: a transfer with an amount of zero or less, served alone, ends with
\* "Invalid amount" and leaves every balance and the transactions table as
\* they were; and every record of the transactions table has an amount above
\* zero.
C17_InvalidAmountRejected ==
  /\ \A p \in Session :
       (Alone(p) /\ request[p].kind = "transfer" /\ request[p].amount <= 0) =>
         /\ result[p] = "Invalid amount"
         /\ balance = base.balance
         /\ transactions = base.transactions
  /\ \A i \in 1..Len(transactions) : transactions[i].amount > 0

\* A transfer of zero between two funded accounts of one currency was turned
\* down, after a transfer had been recorded
C17_Witness ==
  \E p \in Session :
    /\ Alone(p) /\ request[p].kind = "transfer" /\ request[p].amount = 0
    /\ Source(p) # Destination(p)
    /\ currency[Source(p)] = currency[Destination(p)]
    /\ base.balance[Source(p)] > 0
    /\ result[p] = "Invalid amount"
    /\ LastTransaction.transaction_type = "transfer"

\* Nothing was committed since the batch began
NothingChanged == balance = base.balance /\ transactions = base.transactions

\* C18: a reversal, served alone, of a transaction that does not exist ends
\* with "Not found"; of one whose type is not transfer, with "Only transfers
\* can be reversed"; of a transfer whose status is not completed, it fails;
\* each time leaving every balance and the transactions table as they were.
\* (So a reversal succeeds only for a completed transfer that exists.)
C18_ReverseOnlyCompletedTransfers ==
  \A p \in Session :
    (Alone(p) /\ request[p].kind = "rollback") =>
      IF request[p].transaction_id > Len(base.transactions)
      THEN result[p] = "Not found" /\ NothingChanged
      ELSE IF Original(p).transaction_type # "transfer"
      THEN result[p] = "Only transfers can be reversed" /\ NothingChanged
      ELSE IF Original(p).status # "completed"
      THEN result[p] # "ok" /\ NothingChanged
      ELSE TRUE

\* p's request is a reversal, served alone, of a completed transfer whose
\* destination held less than the amount of the transfer when the request
\* arrived
ReversalOfSpentFunds(p) ==
  /\ Alone(p) /\ request[p].kind = "rollback"
  /\ request[p].transaction_id <= Len(base.transactions)
  /\ Original(p).transaction_type = "transfer"
  /\ Original(p).status = "completed"
  /\ base.balance[Destination(p)] < Original(p).amount

\* C19: a reversal, served alone, of a completed transfer whose destination
\* holds less than the amount of the transfer ends with "Cannot reverse:
\* Insufficient funds"; no balance changes, no record is added and the
\* original stays completed.
C19_ReversalInsufficientFunds ==
  \A p \in Session :
    ReversalOfSpentFunds(p) =>
      /\ result[p] = "Cannot reverse: Insufficient funds"
      /\ balance = base.balance
      /\ transactions = base.transactions
      /\ transactions[request[p].transaction_id].status = "completed"

C19_Witness ==
  \E p \in Session :
    /\ ReversalOfSpentFunds(p)
    /\ Source(p) # Destination(p)
    /\ base.balance[Destination(p)] > 0
    /\ result[p] = "Cannot reverse: Insufficient funds"

\* The statements of rollback_transaction
RollbackPcs == {"rollback_transaction", "rollback_receiver", "rollback_execute"}

\* This step is a step of the reversal of session p
RollbackStep(p) == pc[p] \in RollbackPcs /\ pc'[p] # pc[p]

\* This step committed the reversal by p of transaction t with source s and
\* destination r: the original is marked reversed, one record is added with
\* source and destination swapped, the amount and the currency of the
\* original, status completed and a description holding the original's
\* reference number, and the rows of both accounts are written
ReversalCommitted(p, t, s, r) ==
  /\ result'[p] = "ok"
  /\ Len(transactions') = Len(transactions) + 1
  /\ SubSeq(transactions', 1, Len(transactions)) = MarkReversed(transactions, t)
  /\ LET new == transactions'[Len(transactions')]
     IN  /\ new.transaction_type = "transfer"
         /\ new.from_account_id = r
         /\ new.to_account_id = s
         /\ new.amount = transactions[t].amount
         /\ new.currency = transactions[t].currency
         /\ new.status = "completed"
         /\ new.description.value = transactions[t].reference_number
         /\ new.description.value # NULL
  /\ Touched = (IF s # r THEN {s, r} ELSE {})
  /\ Changed \subseteq Touched

\* C20: every step of a reversal either commits nothing, or commits, in one
\* step, the status reversed of the original, exactly one new transaction
\* (source and destination swapped, the original's amount and currency,
\* status completed, a description holding the original's reference number)
\* and the balances of both accounts.
C20_ReversalRecorded ==
  [][\A p \in Session :
       RollbackStep(p) =>
         LET t == request[p].transaction_id
         IN  \/ NothingCommitted(p)
             \/ ReversalCommitted(p, t, transactions[t].from_account_id,
                                  transactions[t].to_account_id)]_vars

\* A reversal served alone has succeeded: the log is one record longer, its
\* last record is the reversal and both balances have changed
C20_Witness ==
  \E p \in Session :
    /\ Alone(p) /\ Succeeded(p) /\ request[p].kind = "rollback"
    /\ Len(transactions) = Len(base.transactions) + 1
    /\ LastTransaction.description
         = Description("Reversal of", Original(p).reference_number)
    /\ LastTransaction.from_account_id = Destination(p)
    /\ LastTransaction.to_account_id = Source(p)
    /\ Source(p) # Destination(p)
    /\ balance[Source(p)] # base.balance[Source(p)]
    /\ balance[Destination(p)] # base.balance[Destination(p)]
    /\ transactions[request[p].transaction_id].status = "reversed"

\* ------------------------------------------------ card payments (CardSpec)
\* The daily spend window of the card over a transactions table
Window(txns) == DailySpending(txns, CardId, Len(txns))

\* The sessions whose request is a card payment
Payers == {p \in Session : request[p].kind = "card_payment"}

\* Two payments of one amount a were served together and nothing else with
\* them, on the active card with limit L, a <= L < 2a, its window empty and
\* its account holding at least 2a when the first arrived
TwoPaymentsOverLimit ==
  /\ Quiescent /\ batch = 2
  /\ Cardinality(Payers) = 2
  /\ card_status = "active"
  /\ Window(base.transactions) = 0
  /\ \E a \in 1..MaxAmount :
       /\ \A p \in Payers : request[p].amount = a
       /\ a <= daily_limit /\ daily_limit < 2 * a
       /\ base.balance[CardAccount] >= 2 * a

\* C11: of two concurrent payments of one amount, each within the daily
\* limit and the two together above it, on a card with an empty window and
\* an account that covers both, at most one succeeds, the other ends with
\* "Limit exceeded", and the window does not exceed the limit.
C11_ConcurrentPaymentsWithinLimit ==
  TwoPaymentsOverLimit =>
    /\ \E p \in Payers : result[p] # "ok"
    /\ \E p \in Payers : result[p] = "Limit exceeded"
    /\ Window(transactions) <= daily_limit

C11_Witness ==
  /\ TwoPaymentsOverLimit
  /\ \E p \in Payers : result[p] = "ok"
  /\ \E p \in Payers : result[p] = "Limit exceeded"
  /\ Window(transactions) = daily_limit
  /\ balance[CardAccount] > 0

\* p's request is a card payment served alone
PaidAlone(p) == Alone(p) /\ request[p].kind = "card_payment"

\* ... that would take the window above the limit
OverLimit(p) ==
  Window(base.transactions) + request[p].amount > daily_limit

\* C12 (as amended): a card payment on an active card, served alone, is
\* approved only if window + amount <= limit; otherwise it ends with "Limit
\* exceeded" and leaves the balances, the window and the transactions table
\* as they were.
C12_LimitGuard ==
  \A p \in Session :
    (PaidAlone(p) /\ card_status = "active") =>
      /\ result[p] = "ok" => ~OverLimit(p)
      /\ OverLimit(p) =>
           /\ result[p] = "Limit exceeded"
           /\ balance = base.balance
           /\ Window(transactions) = Window(base.transactions)
           /\ transactions = base.transactions

\* A payment within the remaining balance but above what is left of the
\* limit after an earlier payment is turned down
C12_Witness ==
  \E p \in Session :
    /\ PaidAlone(p) /\ card_status = "active"
    /\ OverLimit(p)
    /\ Window(base.transactions) > 0
    /\ request[p].amount <= daily_limit
    /\ request[p].amount <= base.balance[CardAccount]
    /\ result[p] = "Limit exceeded"

\* C12 (as stated): a card payment, served alone, is approved only if
\* window + amount <= limit; otherwise it ends with "Limit exceeded" and
\* leaves the balances, the window and the transactions table as they were.
C12_AlwaysLimitExceeded ==
  \A p \in Session :
    PaidAlone(p) =>
      /\ result[p] = "ok" => ~OverLimit(p)
      /\ OverLimit(p) =>
           /\ result[p] = "Limit exceeded"
           /\ balance = base.balance
           /\ Window(transactions) = Window(base.transactions)
           /\ transactions = base.transactions

\* C13: a card payment, served alone, on a card that is not active
\* (inactive, blocked or expired) ends with "Card is not active", whatever
\* the amount, the limit and the balance are, and leaves the balances, the
\* window and the transactions table as they were.
C13_NotActiveRejected ==
  \A p \in Session :
    (PaidAlone(p) /\ card_status \in CardStatus \ {"active"}) =>
      /\ result[p] = "Card is not active"
      /\ balance = base.balance
      /\ Window(transactions) = Window(base.transactions)
      /\ transactions = base.transactions

\* A payment above the limit on the blocked card
C13_Witness ==
  \E p \in Session :
    /\ PaidAlone(p) /\ card_status = "blocked"
    /\ OverLimit(p)
    /\ result[p] = "Card is not active"

TransferFromInactive(p) ==
  /\ Alone(p) /\ request[p].kind = "transfer"
  /\ request[p].from_account_id \in AccountId
  /\ Destination(p) \in AccountId \ {Source(p)}
  /\ ValidAmount(request[p].amount)
  /\ request[p].amount <= base.balance[Source(p)]
  /\ currency[Source(p)] = currency[Destination(p)]
  /\ status[Source(p)] \in {"frozen", "closed"}

\* C16: a transfer, served alone, whose source account is frozen or closed
\* ends with "Account not active" and leaves the balances and the
\* transactions table as they were.
C16_InactiveSourceRejected ==
  \A p \in Session :
    TransferFromInactive(p) =>
      /\ result[p] = "Account not active"
      /\ balance = base.balance
      /\ transactions = base.transactions

\* ------------------------------------------------ the transactions table
\* What a record is created with and keeps
Fixed(txn) ==
  <<txn.transaction_type, txn.from_account_id, txn.to_account_id, txn.card_id,
    txn.amount, txn.currency, txn.reference_number, txn.created_at>>

\* C22: in every step no record of the transactions table is deleted, no
\* record's type, accounts, amount, currency or reference number changes,
\* no record's status becomes pending, and a record whose status changes
\* goes from completed to reversed.
C22_AppendOnly ==
  [][/\ Len(transactions') >= Len(transactions)
     /\ \A i \in 1..Len(transactions) :
          /\ Fixed(transactions'[i]) = Fixed(transactions[i])
          /\ transactions'[i].status # "pending"
          /\ transactions'[i].status # transactions[i].status =>
               /\ transactions[i].status = "completed"
               /\ transactions'[i].status = "reversed"]_vars

\* A record has been reversed and records were added after it
C22_Witness ==
  \E i \in 1..Len(transactions) :
    /\ transactions[i].status = "reversed"
    /\ i <= Len(base.transactions)
    /\ Len(transactions) > i + 1

\* C24: no two records of the transactions table carry the same reference
\* number.
C24_UniqueReferences ==
  \A i, j \in 1..Len(transactions) :
    transactions[i].reference_number = transactions[j].reference_number => i = j

\* A transfer or reversal whose generated reference was already in the table
\* has been turned down, with transfers, reversals and deposits in the table
C24_Witness ==
  /\ \E p \in Session : Served(p) /\ result[p] = "Conflict"
  /\ \E i \in 1..Len(transactions) : transactions[i].transaction_type = "deposit"
  /\ \E i \in 1..Len(transactions) :
       /\ transactions[i].transaction_type = "transfer"
       /\ transactions[i].description.text = "Reversal of"

\* C26: a transfer or reversal whose generated reference collides with one
\* in the table generates another and completes: no transfer and no
\* reversal ends with "Conflict".
C26_CollisionRetried ==
  \A p \in Session :
    (Served(p) /\ request[p].kind \in {"transfer", "rollback"}) =>
      result[p] # "Conflict"

\* p's request is a transfer, served alone, of an amount the balance covers
\* from an account to itself
SelfTransfer(p) ==
  /\ Alone(p) /\ request[p].kind = "transfer"
  /\ request[p].from_account_id \in AccountId
  /\ Destination(p) = Source(p)
  /\ ValidAmount(request[p].amount)
  /\ request[p].amount <= base.balance[Source(p)]

\* p's request is a reversal, served alone, of a transfer from an account to
\* itself
SelfTransferReversal(p) ==
  /\ Alone(p) /\ request[p].kind = "rollback"
  /\ request[p].transaction_id <= Len(base.transactions)
  /\ Original(p).transaction_type = "transfer"
  /\ Original(p).from_account_id = Original(p).to_account_id

\* C28: a transfer, served alone, from an account to itself of an amount the
\* balance covers succeeds (unless its generated reference is in use),
\* leaves every balance as it was and adds one completed record whose source
\* and destination are that account; a reversal, served alone, of such a
\* record leaves every balance as it was.
C28_SelfTransfer ==
  \A p \in Session :
    /\ SelfTransfer(p) =>
         /\ balance = base.balance
         /\ result[p] \in {"ok", "Conflict"}
         /\ result[p] = "Conflict" => transactions = base.transactions
         /\ result[p] = "ok" =>
              /\ Len(transactions) = Len(base.transactions) + 1
              /\ SubSeq(transactions, 1, Len(base.transactions))
                   = base.transactions
              /\ LastTransaction.transaction_type = "transfer"
              /\ LastTransaction.status = "completed"
              /\ LastTransaction.amount = request[p].amount
              /\ LastTransaction.from_account_id = Source(p)
              /\ LastTransaction.to_account_id = Source(p)
    /\ SelfTransferReversal(p) => balance = base.balance

\* A transfer from an account to itself has been reversed
C28_Witness ==
  \E p \in Session :
    /\ SelfTransferReversal(p) /\ Succeeded(p)
    /\ Original(p).status = "completed"
    /\ LastTransaction.from_account_id = LastTransaction.to_account_id
    /\ LastTransaction.description.text = "Reversal of"
    /\ balance[Source(p)] > 0

\* p's request is a reversal, served alone, of the completed record of a
\* reversal, when the account it credited covers the amount
ReversalOfReversal(p) ==
  /\ Alone(p) /\ request[p].kind = "rollback"
  /\ request[p].transaction_id <= Len(base.transactions)
  /\ Original(p).description.text = "Reversal of"
  /\ Original(p).status = "completed"
  /\ base.balance[Original(p).to_account_id] >= Original(p).amount

\* The records a reversal record reverses: those with the reference number
\* its description holds
Reversed(txns, reversal) ==
  {i \in 1..Len(txns) : txns[i].reference_number = reversal.description.value}

\* C29: a reversal, served alone, of the completed record of a reversal is
\* accepted when the funds permit (and its generated reference is not in
\* use): the amount goes again from the source of the first transfer to its
\* destination, the record of the reversal becomes reversed, one record is
\* added, and the first transfer keeps status reversed.
C29_ReversalReversible ==
  \A p \in Session :
    ReversalOfReversal(p) =>
      LET rev == Original(p)
          s == rev.to_account_id
          r == rev.from_account_id
          debited == [base.balance EXCEPT ![s] = @ - rev.amount]
      IN  /\ result[p] \in {"ok", "Conflict"}
          /\ result[p] = "Conflict" =>
               balance = base.balance /\ transactions = base.transactions
          /\ result[p] = "ok" =>
               /\ balance = [debited EXCEPT ![r] = @ + rev.amount]
               /\ Len(transactions) = Len(base.transactions) + 1
               /\ transactions[request[p].transaction_id].status = "reversed"
               /\ LastTransaction.from_account_id = s
               /\ LastTransaction.to_account_id = r
               /\ LastTransaction.amount = rev.amount
          /\ \A i \in Reversed(base.transactions, rev) :
               /\ base.transactions[i].from_account_id = s
               /\ base.transactions[i].to_account_id = r
               /\ base.transactions[i].status = "reversed"
               /\ transactions[i].status = "reversed"

\* The first transfer is reversed, its reversal is reversed, and the
\* balances are those the first transfer left
C29_Witness ==
  \E p \in Session :
    /\ ReversalOfReversal(p) /\ Succeeded(p)
    /\ Reversed(transactions, Original(p)) # {}
    /\ Original(p).from_account_id # Original(p).to_account_id
    /\ balance[Original(p).from_account_id]
         > base.balance[Original(p).from_account_id]

\* ------------------------------------------------------------ the ledger
\* The sum over the records numbered 1..n, in status completed or reversed,
\* of the amounts that came into account a less the amounts that went out
RECURSIVE Ledger(_, _, _)
Ledger(txns, a, n) ==
  IF n = 0 THEN 0
  ELSE Ledger(txns, a, n - 1)
       + (IF txns[n].status \in {"completed", "reversed"}
          THEN (IF txns[n].to_account_id = a THEN txns[n].amount ELSE 0)
               - (IF txns[n].from_account_id = a THEN txns[n].amount ELSE 0)
          ELSE 0)

\* C27: after initial deposits, transfers and reversals (no card payment in
\* the table) the balance of each account is the sum of the amounts of the
\* records (completed or reversed) in which it is the destination less the
\* sum of the amounts of those in which it is the source.
C27_LedgerConsistent ==
  (\A i \in 1..Len(transactions) :
     transactions[i].transaction_type \in {"deposit", "transfer"}) =>
    \A a \in AccountId : balance[a] = Ledger(transactions, a, Len(transactions))

\* --------------------------------------------- the card's status (CardSpec)
\* This step is the step of activate_card for the request of session p, no
\* other request being in flight
ActivateStep(p) ==
  /\ batch = 1
  /\ pc[p] = "activate_card" /\ pc'[p] # pc[p]

\* C25: a card that is inactive has never been activated (activated_at is
\* not set); an activation served alone succeeds only when the card is
\* inactive and the PIN is the one given at creation, and then the status is
\* active and activated_at is set; otherwise it fails and leaves the status
\* and activated_at as they were.
C25_Activation ==
  [][/\ card_status = "inactive" => activated_at = NULL
     /\ \A p \in Session :
          ActivateStep(p) =>
            IF card_status = "inactive" /\ request[p].pin = CardPin
            THEN /\ result'[p] = "ok"
                 /\ card_status' = "active"
                 /\ activated_at' # NULL
                 /\ activated_at' = clock
            ELSE /\ result'[p] # "ok"
                 /\ card_status' = card_status
                 /\ activated_at' = activated_at]_vars

\* The inactive card has been activated by a request served alone
C25_Witness ==
  \E p \in Session :
    /\ Alone(p) /\ request[p].kind = "activate" /\ Succeeded(p)
    /\ request[p].pin = CardPin
    /\ card_status = "active"
    /\ activated_at > CreatedAt

\* This step is the step of deactivate_card for the request of session p, no
\* other request being in flight
DeactivateStep(p) ==
  /\ batch = 1
  /\ pc[p] = "deactivate_card" /\ pc'[p] # pc[p]

\* C30: a deactivation served alone takes the card from any status but
\* blocked to blocked and fails on a blocked card; and in every step a
\* blocked card stays blocked, no card becomes inactive, and a card becomes
\* active only from inactive, by an activation with the PIN given at
\* creation.
C30_Lifecycle ==
  [][/\ \A p \in Session :
          DeactivateStep(p) =>
            IF card_status # "blocked"
            THEN result'[p] = "ok" /\ card_status' = "blocked"
            ELSE result'[p] # "ok" /\ card_status' = "blocked"
     /\ card_status = "blocked" => card_status' = "blocked"
     /\ card_status' = "inactive" => card_status = "inactive"
     /\ (card_status' = "active" /\ card_status # "active") =>
          /\ card_status = "inactive"
          /\ \E p \in Session :
               /\ pc[p] = "activate_card" /\ pc'[p] = "idle"
               /\ request[p].pin = CardPin]_vars


\* A filter bound that was given with the request
Supplied(x) == x # Absent

\* The rows History is to return: those where the account is source or
\* destination and which satisfy every bound that was given
Matching(txn, account_id, filters) ==
  /\ (txn.from_account_id = account_id \/ txn.to_account_id = account_id)
  /\ (Supplied(filters.start_date) => txn.created_at >= filters.start_date)
  /\ (Supplied(filters.end_date) => txn.created_at <= filters.end_date)
  /\ (filters.transaction_type # NoType
        => txn.transaction_type = filters.transaction_type)
  /\ (Supplied(filters.min_amount) => txn.amount >= filters.min_amount)
  /\ (Supplied(filters.max_amount) => txn.amount <= filters.max_amount)

\* Session p answers its history request in this step
HistoryStep(p) ==
  /\ pc[p] = "get_transaction_history"
  /\ pc'[p] = "idle"
  /\ result'[p] = "ok"

\* C21: History(account, filters, skip, limit) returns exactly the transactions
\* where the account is source or destination and which satisfy every supplied
\* filter (created_at >= start, created_at <= end, type equal, amount >= min,
\* amount <= max, for every supplied bound value including 0), ordered by
\* creation time descending, skipping the first skip of them and returning at
\* most limit; it changes no balance, no record and no status, and takes no
\* hold.
C21_History ==
  [][\A p \in Session :
       HistoryStep(p) =>
         LET req == request[p]
         IN  /\ history'[p] =
                  Page(OrderByCreatedAtDesc(transactions,
                         {i \in 1..Len(transactions) :
                            Matching(transactions[i], req.from_account_id,
                                     req.filters)}),
                       req.skip, req.limit)
             /\ UNCHANGED <<balance, transactions, row_lock, status,
                            card_status>>]_vars


\* What a balance lookup or a History request reads: the committed balances
\* and the committed table
Observable == <<balance, transactions>>

\* The balances after funds moved from s to r (the values the session
\* computed from the balances it holds in im)
Moved(im, s, r, amt) ==
  [a \in AccountId |->
     IF s = r THEN balance[a]
     ELSE IF a = s THEN im[s] - amt
     ELSE IF a = r THEN im[r] + amt
     ELSE balance[a]]

\* This step makes the whole transfer of p readable at once: the source
\* debited, the destination credited, and its completed record added
WholeTransfer(p) ==
  LET req == request[p]
      s == req.from_account_id
      r == AccountByNumber(req.to_account_number)
      n == Len(transactions)
  IN  /\ pc[p] = "transfer_execute"
      /\ balance' = Moved(identity_map[p], s, r, req.amount)
      /\ Len(transactions') = n + 1
      /\ SubSeq(transactions', 1, n) = transactions
      /\ transactions'[n + 1].from_account_id = s
      /\ transactions'[n + 1].to_account_id = r
      /\ transactions'[n + 1].amount = req.amount
      /\ transactions'[n + 1].status = "completed"

\* This step makes the whole reversal of p readable at once: the funds
\* returned, the original marked reversed, and the reversal record added
WholeReversal(p) ==
  LET t == request[p].transaction_id
      orig == transactions[t]
      n == Len(transactions)
  IN  /\ pc[p] = "rollback_execute"
      /\ balance' = Moved(identity_map[p], orig.to_account_id,
                          orig.from_account_id, orig.amount)
      /\ Len(transactions') = n + 1
      /\ \A i \in 1..n :
           transactions'[i] = IF i = t
                              THEN [transactions[i] EXCEPT !.status = "reversed"]
                              ELSE transactions[i]
      /\ transactions'[n + 1].from_account_id = orig.to_account_id
      /\ transactions'[n + 1].to_account_id = orig.from_account_id
      /\ transactions'[n + 1].amount = orig.amount
      /\ transactions'[n + 1].status = "completed"

\* Session p answers its balance request in this step
BalanceStep(p) ==
  /\ pc[p] = "get_account_balance"
  /\ pc'[p] = "idle"
  /\ result'[p] = "ok"

\* C23: no intermediate state of a Transfer or a Reversal can be read by a
\* concurrent reader that takes no hold (a balance lookup or History).  What
\* such a reader returns is the committed state of the moment it reads, and
\* the committed state changes only by a step that is a whole Transfer
\* (source debited, destination credited, record added) or a whole Reversal
\* (funds returned, original marked reversed, reversal record added): never
\* a debit without its credit, nor balances without the record or the flip.
C23_NoIntermediateState ==
  [][/\ Observable' # Observable
          => \E p \in Session : WholeTransfer(p) \/ WholeReversal(p)
     /\ \A p \in Session :
          /\ BalanceStep(p)
               => /\ observed'[p] = balance[request[p].from_account_id]
                  /\ Observable' = Observable
          /\ HistoryStep(p)
               => /\ \A i \in 1..Len(history'[p]) :
                       \E j \in 1..Len(transactions) :
                         history'[p][i] = transactions[j]
                  /\ Observable' = Observable]_vars

\* A balance request has been answered, with the committed balance, while a
\* transfer that has passed its checks holds that row and has not committed
C23_Witness ==
  \E p, q \in Session :
    /\ pc[p] = "transfer_execute"
    /\ Served(q)
    /\ request[q].kind = "balance"
    /\ result[q] = "ok"
    /\ row_lock[request[q].from_account_id] = p
    /\ request[q].from_account_id = request[p].from_account_id
    /\ observed[q] = balance[request[q].from_account_id]

====
